---- MODULE Spec2Model ----
(***************************************************************************)
(* rebalance_liquidity: the create-or-rebalance action of                  *)
(*   cdp_agentkit_core/actions/defi/rebalance_liquidity.py  ("core")       *)
(*   examples/cdp-langchain-chatbot/chatbot.py              ("chatbot")    *)
(* One run of the function is modelled as a state machine whose steps are  *)
(* the code between two calls of the external wallet interface             *)
(* (invoke_contract, invocation.wait, has_token_approval).                 *)
(***************************************************************************)
EXTENDS Integers, Sequences, FiniteSets, TLC

VARIABLES
    impl,         \* which of the two implementations runs
    inp,          \* the arguments of the call (and, for the chatbot, what the wallet reports)
    pc,           \* position of the run in the function body
    tokenId,      \* local variable tokenId of the rebalance branch
    liquidity,    \* local variable liquidity of the rebalance branch
    calls,        \* every invoke_contract call issued, in order
    outstanding,  \* indices in calls of invocations issued and not yet waited on
    results,      \* every wait() call made, in order, with what it returned
    approval,     \* what has_token_approval answered for token0 / token1
    failure,      \* the exception the wallet interface raised, if any, and at which call
    outcome,      \* how the run ended: returned string or raised exception
    previous,     \* the finished earlier runs of the same call, oldest first
    chatPc,       \* run_chat_mode: position of the loop
    read,         \* run_chat_mode: the lines input() returned, in order
    dispatched,   \* run_chat_mode: the lines handed to agent_executor.stream, in order
    open,         \* run_chat_mode: indices in dispatched of streams not yet exhausted
    chunks        \* run_chat_mode: chunks printed from the current stream

\* the variables of run_chat_mode
chatVars == <<chatPc, read, dispatched, open, chunks>>

\* the variables of one run of rebalance_liquidity
runVars == <<impl, inp, pc, tokenId, liquidity, calls, outstanding, results,
             approval, failure, outcome>>

vars == <<runVars, previous, chatVars>>

-----------------------------------------------------------------------------
(* Bounds of the model *)

\* ticks are drawn from 0..MaxTick (both orders, so tick_a >= tick_b occurs)
MaxTick == 1
\* the same call is made at most MaxRuns times in a row
MaxRuns == 3
\* run_chat_mode reads at most MaxInputs lines
MaxInputs == 3
\* a stream of the agent executor yields at most MaxChunks chunks
MaxChunks == 2

-----------------------------------------------------------------------------
(* Python values.  A str is held as a sequence of one-character strings so *)
(* that int() can be computed character by character.                      *)

NoneV == [t |-> "none", s |-> <<>>, n |-> 0]
StrV(cs) == [t |-> "str", s |-> cs, n |-> 0]
IntV(k) == [t |-> "int", s |-> <<>>, n |-> k]

Digits == <<"0", "1", "2", "3", "4", "5", "6", "7", "8", "9">>

IsDigit(c) == \E i \in 1..10 : Digits[i] = c

DigitVal(c) == (CHOOSE i \in 1..10 : Digits[i] = c) - 1

\* bool(v): None, "" and 0 are falsy
Truthy(v) ==
    CASE v.t = "none" -> FALSE
      [] v.t = "str"  -> v.s # <<>>
      [] v.t = "int"  -> v.n # 0

RECURSIVE LStrip(_)
LStrip(cs) == IF cs # <<>> /\ Head(cs) = " " THEN LStrip(Tail(cs)) ELSE cs

RECURSIVE RStrip(_)
RStrip(cs) ==
    IF cs # <<>> /\ cs[Len(cs)] = " " THEN RStrip(SubSeq(cs, 1, Len(cs) - 1)) ELSE cs

RECURSIVE DecimalValue(_)
DecimalValue(cs) ==
    IF cs = <<>> THEN 0
    ELSE 10 * DecimalValue(SubSeq(cs, 1, Len(cs) - 1)) + DigitVal(cs[Len(cs)])

\* int(v): a TypeError for None, a ValueError for a str that is not an
\* optionally signed, optionally space-padded decimal literal
PyInt(v) ==
    CASE v.t = "none" -> [ok |-> FALSE, exc |-> "TypeError", val |-> 0]
      [] v.t = "int"  -> [ok |-> TRUE, exc |-> "", val |-> v.n]
      [] v.t = "str"  ->
            LET body == RStrip(LStrip(v.s))
                signed == body # <<>> /\ Head(body) \in {"+", "-"}
                digits == IF signed THEN Tail(body) ELSE body
                wellFormed == digits # <<>> /\ \A i \in 1..Len(digits) : IsDigit(digits[i])
            IN  IF wellFormed
                THEN [ok |-> TRUE, exc |-> "",
                      val |-> IF signed /\ Head(body) = "-"
                              THEN 0 - DecimalValue(digits) ELSE DecimalValue(digits)]
                ELSE [ok |-> FALSE, exc |-> "ValueError", val |-> 0]

RECURSIVE Join(_)
Join(cs) == IF cs = <<>> THEN "" ELSE Head(cs) \o Join(Tail(cs))

RECURSIVE NatStr(_)
NatStr(k) == IF k < 10 THEN Digits[k + 1] ELSE NatStr(k \div 10) \o Digits[(k % 10) + 1]

IntStr(k) == IF k < 0 THEN "-" \o NatStr(0 - k) ELSE NatStr(k)

\* str(v), as an f-string renders a value
PyStr(v) ==
    CASE v.t = "none" -> "None"
      [] v.t = "str"  -> Join(v.s)
      [] v.t = "int"  -> IntStr(v.n)

-----------------------------------------------------------------------------
(* Program constants of the two implementations *)

Impls == {"core", "chatbot"}

\* NM_POSITION_MANAGER with the Base sepolia address in the core as well
NM_POSITION_MANAGER_Sepolia(i) == "0x27F971cb582BF9E50F397e4d29a5C7A34f11faA2"

NM_POSITION_MANAGER(i) ==
    IF i = "core" THEN "0x03a520b32C04BF3bEEf7BEb72E919cf822Ed34f1"
    ELSE "0x27F971cb582BF9E50F397e4d29a5C7A34f11faA2"

fee(i) == 3000

\* 9999999999 does not fit TLC's 32-bit integers: a Python int this large is
\* held as its decimal digits
deadline(i) == <<9, 9, 9, 9, 9, 9, 9, 9, 9, 9>>

-----------------------------------------------------------------------------
(* What the wallet may report for get_liquidity_position(pool): None, or a *)
(* dict holding some of the keys tokenId, liquidity, pool.                 *)

NoPosition == [isDict |-> FALSE, keys |-> {}, tokenId |-> NoneV, liquidity |-> NoneV]

PositionDict(ks, tid, liq) == [isDict |-> TRUE, keys |-> ks, tokenId |-> tid, liquidity |-> liq]

\* bool(position): None and the empty dict are falsy
PositionTruthy(p) == p.isDict /\ p.keys # {}

\* position.get(key): None when the key is missing
PositionGet(p, key) ==
    IF key \notin p.keys THEN NoneV
    ELSE IF key = "tokenId" THEN p.tokenId ELSE p.liquidity

\* what wait() returns: a dict that may hold a tokenId
Result(has, tid) == [has |-> has, tokenId |-> tid]

\* one wait() call: the invocation waited on (its index in calls), whether
\* wait() returned, and what it returned
Waited(n, ok, r) == [call |-> n, ok |-> ok, value |-> r]

\* result.get("tokenId", "unknown")
ResultGet(r) == IF r.has THEN r.tokenId ELSE StrV(<<"u", "n", "k", "n", "o", "w", "n">>)

-----------------------------------------------------------------------------
(* The argument records of the contract calls.  a is the input record, tid *)
(* and liq the locals tokenId and liquidity.                               *)

\* core, create branch: mint_args
CoreCreateMintArgs(a) ==
    [token0 |-> a.token0, token1 |-> a.token1, fee |-> fee("core"),
     tickLower |-> a.tick_a, tickUpper |-> a.tick_b,
     amount0Desired |-> a.amount0Desired, amount1Desired |-> a.amount1Desired,
     amount0Min |-> "0", amount1Min |-> "0",
     recipient |-> a.address, deadline |-> deadline("core"), pool |-> a.pool]

\* CoreDecreaseArgs with the desired amounts as minimum amounts
CoreDecreaseArgs_DesiredAsMin(a, tid, liq) ==
    [tokenId |-> tid, liquidity |-> liq,
     amount0Min |-> a.amount0Desired, amount1Min |-> a.amount1Desired,
     deadline |-> deadline("core"), pool |-> a.pool]

\* core, rebalance branch: decrease_args
CoreDecreaseArgs(a, tid, liq) ==
    [tokenId |-> tid, liquidity |-> liq, amount0Min |-> "0", amount1Min |-> "0",
     deadline |-> deadline("core"), pool |-> a.pool]

\* CoreCollectArgs with the liquidity put where the token id belongs
CoreCollectArgs_LiquidityAsId(a, tid) ==
    [tokenId |-> a.existing_liquidity, recipient |-> a.address,
     amount0Max |-> a.amount0Desired, amount1Max |-> a.amount1Desired]

\* core, rebalance branch: collect_args
CoreCollectArgs(a, tid) ==
    [tokenId |-> tid, recipient |-> a.address,
     amount0Max |-> a.amount0Desired, amount1Max |-> a.amount1Desired]

\* core, rebalance branch: the args of burn
CoreBurnArgs(a, tid) == [tokenId |-> tid, pool |-> a.pool]

\* CoreRebalanceMintArgs with the ticks put in ascending order
CoreRebalanceMintArgs_SortedTicks(a) ==
    [token0 |-> a.token0, token1 |-> a.token1, fee |-> fee("core"),
     tickLower |-> IF a.tick_a <= a.tick_b THEN a.tick_a ELSE a.tick_b,
     tickUpper |-> IF a.tick_a <= a.tick_b THEN a.tick_b ELSE a.tick_a,
     amount0Desired |-> a.amount0Desired, amount1Desired |-> a.amount1Desired,
     amount0Min |-> "0", amount1Min |-> "0",
     recipient |-> a.address, deadline |-> deadline("core"), pool |-> a.pool]

\* core, rebalance branch: mint_args
CoreRebalanceMintArgs(a) ==
    [token0 |-> a.token0, token1 |-> a.token1, fee |-> fee("core"),
     tickLower |-> a.tick_a, tickUpper |-> a.tick_b,
     amount0Desired |-> a.amount0Desired, amount1Desired |-> a.amount1Desired,
     amount0Min |-> "0", amount1Min |-> "0",
     recipient |-> a.address, deadline |-> deadline("core"), pool |-> a.pool]

\* chatbot, create branch: the args of the two approve calls
ChatApprove0Args(a) == [spender |-> NM_POSITION_MANAGER("chatbot"), value |-> a.amount0Desired]

ChatApprove1Args(a) == [spender |-> NM_POSITION_MANAGER("chatbot"), value |-> a.amount1Desired]

\* chatbot, create branch: mint_args
ChatCreateMintArgs(a) ==
    [token0 |-> a.token0, token1 |-> a.token1, fee |-> fee("chatbot"),
     tickLower |-> a.tick_a, tickUpper |-> a.tick_b,
     amount0Desired |-> a.amount0Desired, amount1Desired |-> a.amount1Desired,
     amount0Min |-> "0", amount1Min |-> "0",
     recipient |-> a.address, deadline |-> deadline("chatbot")]

\* chatbot, rebalance branch: decrease_args
ChatDecreaseArgs(a, tid, liq) ==
    [tokenId |-> tid, liquidity |-> liq, amount0Min |-> "0", amount1Min |-> "0",
     deadline |-> deadline("chatbot")]

\* chatbot, rebalance branch: collect_args
ChatCollectArgs(a, tid) ==
    [tokenId |-> tid, recipient |-> a.address,
     amount0Max |-> a.amount0Desired, amount1Max |-> a.amount1Desired]

\* chatbot, rebalance branch: the args of burn
ChatBurnArgs(a, tid) == [tokenId |-> tid]

\* ChatRebalanceMintArgs with the fee tier of another pool
ChatRebalanceMintArgs_OtherFee(a) ==
    [token0 |-> a.token0, token1 |-> a.token1, fee |-> 500,
     tickLower |-> a.tick_a, tickUpper |-> a.tick_b,
     amount0Desired |-> a.amount0Desired, amount1Desired |-> a.amount1Desired,
     amount0Min |-> "0", amount1Min |-> "0",
     recipient |-> a.address, deadline |-> deadline("chatbot")]

\* chatbot, rebalance branch: mint_args
ChatRebalanceMintArgs(a) ==
    [token0 |-> a.token0, token1 |-> a.token1, fee |-> fee("chatbot"),
     tickLower |-> a.tick_a, tickUpper |-> a.tick_b,
     amount0Desired |-> a.amount0Desired, amount1Desired |-> a.amount1Desired,
     amount0Min |-> "0", amount1Min |-> "0",
     recipient |-> a.address, deadline |-> deadline("chatbot")]

Invocation(addr, m, args) == [contract_address |-> addr, method |-> m, args |-> args]

\* Positions of a run at which wallet.invoke_contract is called
InvokeLabels == {"approve0", "approve1", "mint", "decrease", "collect", "burn", "remint"}

\* The invoke_contract call made at position l
Call(i, l, a, tid, liq) ==
    LET nm == NM_POSITION_MANAGER(i)
        core == i = "core"
    IN  CASE l = "approve0" -> Invocation(a.token0, "approve", ChatApprove0Args(a))
          [] l = "approve1" -> Invocation(a.token1, "approve", ChatApprove1Args(a))
          [] l = "mint"     -> Invocation(nm, "mint",
                                   IF core THEN CoreCreateMintArgs(a) ELSE ChatCreateMintArgs(a))
          [] l = "decrease" -> Invocation(nm, "decreaseLiquidity",
                                   IF core THEN CoreDecreaseArgs(a, tid, liq)
                                   ELSE ChatDecreaseArgs(a, tid, liq))
          [] l = "collect"  -> Invocation(nm, "collect",
                                   IF core THEN CoreCollectArgs(a, tid) ELSE ChatCollectArgs(a, tid))
          [] l = "burn"     -> Invocation(nm, "burn",
                                   IF core THEN CoreBurnArgs(a, tid) ELSE ChatBurnArgs(a, tid))
          [] l = "remint"   -> Invocation(nm, "mint",
                                   IF core THEN CoreRebalanceMintArgs(a)
                                   ELSE ChatRebalanceMintArgs(a))

-----------------------------------------------------------------------------
(* How a run ends, and the strings it returns *)

Running == [kind |-> "running", value |-> ""]
Returned(str) == [kind |-> "returned", value |-> str]
Raised(exc) == [kind |-> "raised", value |-> exc]

InvalidStatus == "Existing liquidity position is invalid or has zero liquidity."

\* the f-string returned by the create branch
CreatedStatus(tid, a) ==
    "Liquidity position created with token ID " \o PyStr(tid)
        \o " in pool " \o a.pool
        \o " with tick range [" \o IntStr(a.tick_a) \o ", " \o IntStr(a.tick_b) \o "]."

\* the f-string returned by the rebalance branch
RebalancedStatus(old, new, a) ==
    "Liquidity position rebalanced. Old position (token ID " \o PyStr(old) \o ") removed. "
        \o "New liquidity position created with token ID " \o PyStr(new)
        \o " in pool " \o a.pool
        \o " with tick range [" \o IntStr(a.tick_a) \o ", " \o IntStr(a.tick_b) \o "]."

-----------------------------------------------------------------------------
(* Control flow *)

Step(l, tid, liq, out) == [pc |-> l, tokenId |-> tid, liquidity |-> liq, outcome |-> out]

\* CoreEntry with the branch taken on the presence of a token id instead of
\* on the existing_position flag
CoreEntry_BranchOnTokenId(a) ==
    IF ~Truthy(a.existing_tokenId)
    THEN Step("mint", NoneV, NoneV, Running)
    ELSE LET k == PyInt(a.existing_liquidity)
         IN  IF ~k.ok THEN Step("done", a.existing_tokenId, a.existing_liquidity, Raised(k.exc))
             ELSE IF k.val = 0
                  THEN Step("done", a.existing_tokenId, a.existing_liquidity,
                            Returned(InvalidStatus))
             ELSE Step("decrease", a.existing_tokenId, a.existing_liquidity, Running)

\* core: from the function's entry to its first contract call or early exit
CoreEntry(a) ==
    IF ~a.existing_position
    THEN Step("mint", NoneV, NoneV, Running)
    ELSE LET tid == a.existing_tokenId
             liq == a.existing_liquidity
         IN  IF ~Truthy(tid)
             THEN Step("done", tid, liq, Returned(InvalidStatus))
             ELSE LET k == PyInt(liq)
                  IN  IF ~k.ok THEN Step("done", tid, liq, Raised(k.exc))
                      ELSE IF k.val = 0 THEN Step("done", tid, liq, Returned(InvalidStatus))
                      ELSE Step("decrease", tid, liq, Running)

\* chatbot: from the function's entry to its first wallet call or early exit
ChatEntry(a) ==
    IF ~PositionTruthy(a.position)
    THEN Step("check0", NoneV, NoneV, Running)
    ELSE LET tid == PositionGet(a.position, "tokenId")
             liq == PositionGet(a.position, "liquidity")
         IN  IF ~Truthy(tid) \/ liq = StrV(<<"0">>)
             THEN Step("done", tid, liq, Returned(InvalidStatus))
             ELSE Step("decrease", tid, liq, Running)

Entry(i, a) == IF i = "core" THEN CoreEntry(a) ELSE ChatEntry(a)

\* AfterCheck with the test inverted: approve when the approval is in place
AfterCheck_Inverted(l, ans) ==
    IF l = "check0" THEN (IF ans THEN "approve0" ELSE "check1")
    ELSE (IF ans THEN "approve1" ELSE "mint")

\* chatbot: where the run goes after has_token_approval answered ans
AfterCheck(l, ans) ==
    IF l = "check0" THEN (IF ~ans THEN "approve0" ELSE "check1")
    ELSE (IF ~ans THEN "approve1" ELSE "mint")

\* AfterInvoke with the collect invocation never waited on
AfterInvoke_CollectNotWaited(l) == IF l = "collect" THEN "burn" ELSE "wait_" \o l

\* every invoke_contract is followed by the wait() of the invocation it returned
AfterInvoke(l) == "wait_" \o l

WaitLabels ==
    {"wait_approve0", "wait_approve1", "wait_mint", "wait_decrease", "wait_collect",
     "wait_burn", "wait_remint"}

\* AfterWait with the burn placed before the collect
AfterWait_BurnBeforeCollect(l) ==
    CASE l = "wait_approve0" -> "check1"
      [] l = "wait_approve1" -> "mint"
      [] l = "wait_mint"     -> "done"
      [] l = "wait_decrease" -> "burn"
      [] l = "wait_burn"     -> "collect"
      [] l = "wait_collect"  -> "remint"
      [] l = "wait_remint"   -> "done"

\* the statement that follows a wait() that returned
AfterWait(l) ==
    CASE l = "wait_approve0" -> "check1"
      [] l = "wait_approve1" -> "mint"
      [] l = "wait_mint"     -> "done"
      [] l = "wait_decrease" -> "collect"
      [] l = "wait_collect"  -> "burn"
      [] l = "wait_burn"     -> "remint"
      [] l = "wait_remint"   -> "done"

\* ReturnAfter reporting the old token id as the new one
ReturnAfter_OldIdAsNew(l, a, tid, r) ==
    CASE l = "wait_mint"   -> Returned(CreatedStatus(ResultGet(r), a))
      [] l = "wait_remint" -> Returned(RebalancedStatus(tid, tid, a))
      [] OTHER             -> Running

\* what the run returns once the wait() at l returned r (nothing unless l is
\* the wait of a mint)
ReturnAfter(l, a, tid, r) ==
    CASE l = "wait_mint"   -> Returned(CreatedStatus(ResultGet(r), a))
      [] l = "wait_remint" -> Returned(RebalancedStatus(tid, ResultGet(r), a))
      [] OTHER             -> Running

\* OnFailure with the exception caught and the step tried again
OnFailure_Retry(l, exc) ==
    [pc |-> IF l \in InvokeLabels THEN l ELSE CHOOSE m \in InvokeLabels : "wait_" \o m = l,
     outcome |-> Running]

\* invoke_contract or wait() raised exc at l: no handler encloses the calls,
\* so the exception leaves the function
OnFailure(l, exc) == [pc |-> "done", outcome |-> Raised(exc)]

-----------------------------------------------------------------------------
(* Inputs *)

Ticks == 0..MaxTick
Pools == {"0xPool"}
Token0s == {"0xTokenA", "0xTokenB"}
Token1s == {"0xTokenB"}
Amount0s == {"1000", "2000"}
Amount1s == {"2000"}
WalletAddress == "0xWallet"

\* existing_tokenId / position["tokenId"]: missing, empty, non-empty
TokenIdValues == {NoneV, StrV(<<>>), StrV(<<"1", "2">>)}

\* existing_liquidity / position["liquidity"]: missing, empty, zero in
\* several spellings, non-zero, non-numeric, and the integers 0 and 5
LiquidityValues ==
    {NoneV, StrV(<<>>), StrV(<<"0">>), StrV(<<" ", "0">>), StrV(<<"4", "0">>),
     StrV(<<"x">>), IntV(0), IntV(5)}

PositionValues ==
    {NoPosition} \cup
    {PositionDict(ks, tid, liq) :
        ks \in SUBSET {"tokenId", "liquidity", "pool"},
        tid \in TokenIdValues \ {NoneV}, liq \in LiquidityValues \ {NoneV}}

\* a key the dict lacks has no value
WellFormedPosition(p) ==
    /\ "tokenId" \notin p.keys => p.tokenId = StrV(<<>>)
    /\ "liquidity" \notin p.keys => p.liquidity = StrV(<<>>)

Input(ta, tb, pool, t0, t1, a0, a1, ep, etid, eliq, pos) ==
    [tick_a |-> ta, tick_b |-> tb, pool |-> pool, token0 |-> t0, token1 |-> t1,
     amount0Desired |-> a0, amount1Desired |-> a1,
     existing_position |-> ep, existing_tokenId |-> etid, existing_liquidity |-> eliq,
     address |-> WalletAddress, position |-> pos]

CommonInputs(ep, etid, eliq, pos) ==
    {Input(ta, tb, pool, t0, t1, a0, a1, ep, etid, eliq, pos) :
        ta \in Ticks, tb \in Ticks, pool \in Pools, t0 \in Token0s, t1 \in Token1s,
        a0 \in Amount0s, a1 \in Amount1s}

CoreInputs ==
    UNION {CommonInputs(ep, etid, eliq, NoPosition) :
        ep \in BOOLEAN, etid \in TokenIdValues, eliq \in LiquidityValues}

ChatInputs ==
    UNION {CommonInputs(FALSE, NoneV, NoneV, pos) :
        pos \in {p \in PositionValues : WellFormedPosition(p)}}

\* what invocation.wait() may return
ResultValues == {Result(FALSE, NoneV), Result(TRUE, IntV(7)), Result(TRUE, StrV(<<"5", "6">>))}

\* what invoke_contract and wait() may raise
SdkErrors == {"ContractRevert", "NetworkError"}

NoFailure == [exc |-> "", at |-> 0]
\* exc was raised by the n-th invoke_contract call or by the wait() on it
FailureAt(exc, n) == [exc |-> exc, at |-> n]

-----------------------------------------------------------------------------
(* The run *)

Init ==
    /\ impl \in Impls
    /\ inp \in (IF impl = "core" THEN CoreInputs ELSE ChatInputs)
    /\ pc = "begin"
    /\ tokenId = NoneV
    /\ liquidity = NoneV
    /\ calls = <<>>
    /\ outstanding = {}
    /\ results = <<>>
    /\ approval = [check0 |-> "unchecked", check1 |-> "unchecked"]
    /\ failure = NoFailure
    /\ outcome = Running
    /\ previous = <<>>
    /\ chatPc = "off"
    /\ read = <<>>
    /\ dispatched = <<>>
    /\ open = {}
    /\ chunks = 0

\* function entry: branch selection and validation
Begin ==
    /\ pc = "begin"
    /\ LET e == Entry(impl, inp)
       IN  /\ pc' = e.pc
           /\ tokenId' = e.tokenId
           /\ liquidity' = e.liquidity
           /\ outcome' = e.outcome
    /\ UNCHANGED <<impl, inp, calls, outstanding, results, approval, failure>>
    /\ UNCHANGED <<previous, chatVars>>

\* chatbot: wallet.has_token_approval(token, NM_POSITION_MANAGER) answers
CheckApproval ==
    /\ pc \in {"check0", "check1"}
    /\ \E ans \in BOOLEAN :
          /\ approval' = [approval EXCEPT ![pc] = IF ans THEN "yes" ELSE "no"]
          /\ pc' = AfterCheck(pc, ans)
    /\ UNCHANGED <<impl, inp, tokenId, liquidity, calls, outstanding, results,
                   failure, outcome>>
    /\ UNCHANGED <<previous, chatVars>>

\* wallet.invoke_contract(...) returns an invocation
InvokeContract ==
    /\ pc \in InvokeLabels
    /\ calls' = Append(calls, Call(impl, pc, inp, tokenId, liquidity))
    /\ outstanding' = outstanding \cup {Len(calls) + 1}
    /\ pc' = AfterInvoke(pc)
    /\ UNCHANGED <<impl, inp, tokenId, liquidity, results, approval, failure, outcome>>
    /\ UNCHANGED <<previous, chatVars>>

\* wallet.invoke_contract(...) raises
InvokeContractRaises ==
    /\ pc \in InvokeLabels
    /\ \E exc \in SdkErrors :
          /\ calls' = Append(calls, Call(impl, pc, inp, tokenId, liquidity))
          /\ failure' = FailureAt(exc, Len(calls) + 1)
          /\ pc' = OnFailure(pc, exc).pc
          /\ outcome' = OnFailure(pc, exc).outcome
    /\ UNCHANGED <<impl, inp, tokenId, liquidity, outstanding, results, approval>>
    /\ UNCHANGED <<previous, chatVars>>

\* wait() of the latest invocation returns; the code up to the next wallet
\* call (or the return statement) follows
Wait ==
    /\ pc \in WaitLabels
    /\ \E r \in ResultValues :
          /\ results' = Append(results, Waited(Len(calls), TRUE, r))
          /\ outcome' = ReturnAfter(pc, inp, tokenId, r)
    /\ outstanding' = outstanding \ {Len(calls)}
    /\ pc' = AfterWait(pc)
    /\ UNCHANGED <<impl, inp, tokenId, liquidity, calls, approval, failure>>
    /\ UNCHANGED <<previous, chatVars>>

\* wait() of the latest invocation raises
WaitRaises ==
    /\ pc \in WaitLabels
    /\ \E exc \in SdkErrors :
          /\ failure' = FailureAt(exc, Len(calls))
          /\ pc' = OnFailure(pc, exc).pc
          /\ outcome' = OnFailure(pc, exc).outcome
    /\ results' = Append(results, Waited(Len(calls), FALSE, Result(FALSE, NoneV)))
    /\ outstanding' = outstanding \ {Len(calls)}
    /\ UNCHANGED <<impl, inp, tokenId, liquidity, calls, approval>>
    /\ UNCHANGED <<previous, chatVars>>

Next ==
    \/ Begin
    \/ CheckApproval
    \/ InvokeContract
    \/ InvokeContractRaises
    \/ Wait
    \/ WaitRaises

Spec == Init /\ [][Next]_vars

-----------------------------------------------------------------------------
(* The same call made again: the core function called with the arguments   *)
(* of a finished run                                                       *)

\* what a finished run leaves behind outside the function: the calls it
\* issued and how it ended
Finished(cs, out) == [calls |-> cs, kind |-> out.kind]

InvokeOrder == <<"decrease", "collect", "burn", "remint">>

\* Reentry resuming a run that raised at the call it raised at, and skipping
\* a rebalance that already returned
Reentry_Resume(prev) ==
    LET last == prev[Len(prev)]
    IN  IF last.kind = "raised" /\ Len(last.calls) \in 1..4
               /\ last.calls[1].method = "decreaseLiquidity"
        THEN InvokeOrder[Len(last.calls)]
        ELSE IF last.kind = "returned" /\ Len(last.calls) = 4 THEN "done"
        ELSE "begin"

\* where a call of the function starts, given the runs made before it: the
\* function keeps nothing between calls and starts at its first statement
Reentry(prev) == "begin"

RepeatInputs ==
    {a \in CoreInputs :
        a.tick_a = 0 /\ a.token0 = "0xTokenA" /\ a.amount0Desired = "1000"}

InitRepeat ==
    /\ Init
    /\ impl = "core"
    /\ inp \in RepeatInputs

\* the caller calls the function again with the same arguments
CallAgain ==
    /\ pc = "done"
    /\ Len(previous) + 1 < MaxRuns
    /\ previous' = Append(previous, Finished(calls, outcome))
    /\ pc' = Reentry(previous')
    /\ tokenId' = NoneV
    /\ liquidity' = NoneV
    /\ calls' = <<>>
    /\ outstanding' = {}
    /\ results' = <<>>
    /\ approval' = [check0 |-> "unchecked", check1 |-> "unchecked"]
    /\ failure' = NoFailure
    /\ outcome' = Running
    /\ UNCHANGED <<impl, inp, chatVars>>

NextRepeat ==
    \/ Begin
    \/ InvokeContract
    \/ InvokeContractRaises
    \/ Wait
    \/ WaitRaises
    \/ CallAgain

SpecRepeat == InitRepeat /\ [][NextRepeat]_vars

-----------------------------------------------------------------------------
(* run_chat_mode: the console loop of the chatbot.  A line is a sequence   *)
(* of one-character strings.                                               *)

UpperLetters ==
    <<"A", "B", "C", "D", "E", "F", "G", "H", "I", "J", "K", "L", "M",
      "N", "O", "P", "Q", "R", "S", "T", "U", "V", "W", "X", "Y", "Z">>

LowerLetters ==
    <<"a", "b", "c", "d", "e", "f", "g", "h", "i", "j", "k", "l", "m",
      "n", "o", "p", "q", "r", "s", "t", "u", "v", "w", "x", "y", "z">>

LowerChar(c) ==
    IF \E i \in 1..Len(UpperLetters) : UpperLetters[i] = c
    THEN LowerLetters[CHOOSE i \in 1..Len(UpperLetters) : UpperLetters[i] = c]
    ELSE c

\* user_input.lower()
Lower(line) == [k \in 1..Len(line) |-> LowerChar(line[k])]

\* IsExit comparing the line as typed
IsExit_CaseSensitive(line) == line = <<"e", "x", "i", "t">>

\* user_input.lower() == "exit"
IsExit(line) == Lower(line) = <<"e", "x", "i", "t">>

\* where the loop is once stream() was called: the for loop runs through
\* the stream before the while loop comes round
AfterDispatch == "streaming"

\* what may be typed at the prompt
ConsoleLines ==
    {<<"e", "x", "i", "t">>, <<"E", "X", "I", "T">>, <<"E", "x", "i", "t">>,
     <<"e", "x", "i", "t", " ">>, <<"h", "i">>, <<>>}

\* the keys of a chunk the stream may yield
ChunkKinds == {"agent", "tools", "other"}

\* rebalance_liquidity is not running
RunIdle ==
    /\ impl = "chatbot"
    /\ inp = Input(0, 0, "0xPool", "0xTokenA", "0xTokenB", "1000", "2000",
                   FALSE, NoneV, NoneV, NoPosition)
    /\ pc = "begin"
    /\ tokenId = NoneV
    /\ liquidity = NoneV
    /\ calls = <<>>
    /\ outstanding = {}
    /\ results = <<>>
    /\ approval = [check0 |-> "unchecked", check1 |-> "unchecked"]
    /\ failure = NoFailure
    /\ outcome = Running
    /\ previous = <<>>

InitChat ==
    /\ RunIdle
    /\ chatPc = "prompt"
    /\ read = <<>>
    /\ dispatched = <<>>
    /\ open = {}
    /\ chunks = 0

\* input() returns a line: the loop ends on exit, otherwise the line is
\* handed to agent_executor.stream
ReadInput ==
    /\ chatPc = "prompt"
    /\ Len(read) < MaxInputs
    /\ \E line \in ConsoleLines :
          /\ read' = Append(read, line)
          /\ IF IsExit(line)
             THEN /\ chatPc' = "ended"
                  /\ UNCHANGED <<dispatched, open, chunks>>
             ELSE /\ dispatched' = Append(dispatched, line)
                  /\ open' = open \cup {Len(dispatched) + 1}
                  /\ chunks' = 0
                  /\ chatPc' = AfterDispatch
    /\ UNCHANGED <<runVars, previous>>

\* input() raises EOFError: no handler, the exception leaves the function
InputEnds ==
    /\ chatPc = "prompt"
    /\ chatPc' = "raised"
    /\ UNCHANGED <<runVars, previous, read, dispatched, open, chunks>>

\* the stream yields a chunk, which is printed
StreamChunk ==
    /\ chatPc = "streaming"
    /\ chunks < MaxChunks
    /\ \E kind \in ChunkKinds : chunks' = chunks + 1
    /\ UNCHANGED <<runVars, previous, chatPc, read, dispatched, open>>

\* the stream is exhausted: the for loop ends and the while loop comes round
StreamExhausted ==
    /\ chatPc = "streaming"
    /\ open' = open \ {Len(dispatched)}
    /\ chatPc' = "prompt"
    /\ UNCHANGED <<runVars, previous, read, dispatched, chunks>>

\* the stream raises: no handler but for KeyboardInterrupt
StreamRaises ==
    /\ chatPc = "streaming"
    /\ chatPc' = "raised"
    /\ UNCHANGED <<runVars, previous, read, dispatched, open, chunks>>

\* Ctrl-C while input() or the stream blocks: "Goodbye Agent!", sys.exit(0)
KeyboardInterrupt ==
    /\ chatPc \in {"prompt", "streaming"}
    /\ chatPc' = "exited"
    /\ UNCHANGED <<runVars, previous, read, dispatched, open, chunks>>

NextChat ==
    \/ ReadInput
    \/ InputEnds
    \/ StreamChunk
    \/ StreamExhausted
    \/ StreamRaises
    \/ KeyboardInterrupt

SpecChat == InitChat /\ [][NextChat]_vars

-----------------------------------------------------------------------------
(* Vocabulary of the properties *)

Done == pc = "done"

\* the methods of the calls issued so far, in order
Methods == [k \in 1..Len(calls) |-> calls[k].method]

RebalanceOrder == <<"decreaseLiquidity", "collect", "burn", "mint">>

\* the text an f-string shows for the tokenId of a wait() result
IdText(r) ==
    IF ~r.has THEN "unknown"
    ELSE IF r.tokenId.t = "int" THEN IntStr(r.tokenId.n) ELSE Join(r.tokenId.s)

TickRangeText == "[" \o IntStr(inp.tick_a) \o ", " \o IntStr(inp.tick_b) \o "]."

CreatedText(new) ==
    "Liquidity position created with token ID " \o new \o " in pool " \o inp.pool
        \o " with tick range " \o TickRangeText

RebalancedText(old, new) ==
    "Liquidity position rebalanced. Old position (token ID " \o old \o ") removed. "
        \o "New liquidity position created with token ID " \o new \o " in pool "
        \o inp.pool \o " with tick range " \o TickRangeText

ReturnedCreated ==
    /\ outcome.kind = "returned"
    /\ \E r \in ResultValues : outcome.value = CreatedText(IdText(r))

ReturnedRebalanced ==
    /\ outcome.kind = "returned"
    /\ \E r \in ResultValues, old \in TokenIdValues :
          outcome.value = RebalancedText(Join(old.s), IdText(r))

\* the value denotes an integer other than zero
DenotesNonZero(v) ==
    \/ v.t = "int" /\ v.n # 0
    \/ /\ v.t = "str"
       /\ v.s # <<>>
       /\ \A k \in 1..Len(v.s) : IsDigit(v.s[k])
       /\ \E k \in 1..Len(v.s) : v.s[k] # "0"

\* the token id and liquidity of the existing position the run was told of
GivenTokenId ==
    IF impl = "core" THEN inp.existing_tokenId ELSE PositionGet(inp.position, "tokenId")

GivenLiquidity ==
    IF impl = "core" THEN inp.existing_liquidity ELSE PositionGet(inp.position, "liquidity")

ExistingIndicated ==
    IF impl = "core" THEN inp.existing_position ELSE PositionTruthy(inp.position)

-----------------------------------------------------------------------------
(* C1 *)

CoreCreateRun == impl = "core" /\ ~inp.existing_position

\* C1 as stated: in the core, whenever existing_position is False, the run
\* issues exactly one invoke_contract call, a mint, and returns the
\* 'Liquidity position created ...' status
C1_AsStated ==
    (CoreCreateRun /\ Done) => (Methods = <<"mint">> /\ ReturnedCreated)

\* C1 (amended): in the core, whenever existing_position is False, whatever
\* existing_tokenId and existing_liquidity are, the only call ever issued is
\* one mint (never decreaseLiquidity, collect or burn), and the finished run
\* has issued exactly that one call; it returns the 'created' status unless
\* the mint call or its wait() raised, and then that exception leaves the run
C1_CreateBranch ==
    CoreCreateRun =>
        /\ Len(calls) <= 1
        /\ \A k \in 1..Len(calls) : calls[k].method = "mint"
        /\ Done =>
              /\ Methods = <<"mint">>
              /\ failure = NoFailure => ReturnedCreated
              /\ failure # NoFailure => outcome = Raised(failure.exc)

\* a create run given a token id and a liquidity has returned
C1_Witness ==
    /\ CoreCreateRun
    /\ Truthy(inp.existing_tokenId)
    /\ DenotesNonZero(inp.existing_liquidity)
    /\ Done
    /\ ReturnedCreated

-----------------------------------------------------------------------------
(* C2 *)

\* C2: when an existing position is indicated with a non-empty token id and
\* a non-zero liquidity and no call fails, the finished run (core or chatbot)
\* has issued exactly decreaseLiquidity, collect, burn, mint, in this order,
\* and has returned the 'Liquidity position rebalanced ...' status
C2_RebalanceSequence ==
    (/\ ExistingIndicated
     /\ Truthy(GivenTokenId)
     /\ DenotesNonZero(GivenLiquidity)
     /\ failure = NoFailure)
    => /\ pc # "begin" => Methods = SubSeq(RebalanceOrder, 1, Len(calls))
       /\ Done => (Methods = RebalanceOrder /\ ReturnedRebalanced)

\* a chatbot run has rebalanced
C2_Witness ==
    /\ impl = "chatbot"
    /\ ExistingIndicated
    /\ Truthy(GivenTokenId)
    /\ DenotesNonZero(GivenLiquidity)
    /\ Done
    /\ Len(calls) = 4
    /\ ReturnedRebalanced

-----------------------------------------------------------------------------
(* C3 *)

\* missing or empty
Empty(v) == v = NoneV \/ v = StrV(<<>>)

\* the value denotes the integer zero
DenotesZero(v) ==
    \/ v.t = "int" /\ v.n = 0
    \/ /\ v.t = "str"
       /\ LET body == RStrip(LStrip(v.s))
          IN  body # <<>> /\ \A k \in 1..Len(body) : body[k] = "0"

\* C3: in the core, when existing_position is True and the token id or the
\* liquidity is empty or missing, or the liquidity is zero, the run returns
\* "Existing liquidity position is invalid or has zero liquidity."; and no
\* run told of an existing position ends by an exception of its own
\* (one the wallet did not raise), whatever the token id and the liquidity
C3_InvalidReturnsString ==
    (impl = "core" /\ inp.existing_position /\ Done) =>
        /\ (Empty(inp.existing_tokenId) \/ Empty(inp.existing_liquidity)
                \/ DenotesZero(inp.existing_liquidity))
              => outcome = Returned(InvalidStatus)
        /\ failure = NoFailure => outcome.kind # "raised"

-----------------------------------------------------------------------------
(* C4 *)

SentinelDeadline == <<9, 9, 9, 9, 9, 9, 9, 9, 9, 9>>

\* C4: every mint call issued, by either implementation and on either
\* branch, carries fee 3000 and deadline 9999999999, and every
\* decreaseLiquidity call carries deadline 9999999999
C4_FeeAndDeadline ==
    \A k \in 1..Len(calls) :
        /\ calls[k].method = "mint" =>
              calls[k].args.fee = 3000 /\ calls[k].args.deadline = SentinelDeadline
        /\ calls[k].method = "decreaseLiquidity" =>
              calls[k].args.deadline = SentinelDeadline

\* a chatbot run has issued the decreaseLiquidity and the mint of a rebalance
C4_Witness ==
    /\ impl = "chatbot"
    /\ Len(calls) = 4
    /\ calls[1].method = "decreaseLiquidity"
    /\ calls[4].method = "mint"
    /\ inp.tick_a > inp.tick_b

-----------------------------------------------------------------------------
(* C5 *)

\* the result of the wait() on the n-th call, if that wait() returned
ResultsOf(n) == {results[j].value : j \in {j \in 1..Len(results) : results[j].call = n /\ results[j].ok}}

\* C5: a returned status other than the validation message names the token
\* id of the final mint's result ("unknown" if that result has none): alone
\* on the create branch, and after the caller-supplied old id on the
\* rebalance branch
C5_StatusNamesMintedId ==
    (Done /\ outcome.kind = "returned" /\ outcome.value # InvalidStatus) =>
        /\ Len(calls) >= 1
        /\ calls[Len(calls)].method = "mint"
        /\ \E r \in ResultsOf(Len(calls)) :
              IF ExistingIndicated
              THEN outcome.value = RebalancedText(Join(GivenTokenId.s), IdText(r))
              ELSE outcome.value = CreatedText(IdText(r))

\* a rebalance has returned, the burn's result carrying another token id
\* than the mint's
C5_Witness ==
    /\ Done
    /\ outcome.kind = "returned"
    /\ Len(calls) = 4
    /\ \E rb \in ResultsOf(3), rm \in ResultsOf(4) : rb.has /\ rm.has /\ rb.tokenId # rm.tokenId

-----------------------------------------------------------------------------
(* C6 *)

\* C6: no call is issued while an earlier invocation of the run has not been
\* waited on: at most one invocation is outstanding, and none where
\* invoke_contract is about to be called
C6_OneOutstanding ==
    /\ Cardinality(outstanding) <= 1
    /\ pc \in InvokeLabels => outstanding = {}

\* the third invocation of a rebalance is outstanding
C6_Witness == pc = "wait_burn" /\ outstanding = {3}

-----------------------------------------------------------------------------
(* C7 *)

RebalanceRun == Len(calls) >= 1 /\ calls[1].method = "decreaseLiquidity"

\* the wait() on the n-th call returned
Completed(n) == ResultsOf(n) # {}

\* C7: once invoke_contract or wait() has raised at the k-th call of the
\* rebalance sequence, the run is over with that very exception as its
\* outcome; the calls issued are the first k of decreaseLiquidity, collect,
\* burn, mint, each once, and nothing else; every earlier call has
\* completed and the k-th has not, so a failure at the final mint leaves the
\* burn completed and no mint completed
C7_FailurePropagates ==
    (RebalanceRun /\ failure # NoFailure) =>
        /\ Done
        /\ outcome = Raised(failure.exc)
        /\ Len(calls) = failure.at
        /\ Methods = SubSeq(RebalanceOrder, 1, failure.at)
        /\ \A n \in 1..(failure.at - 1) : Completed(n)
        /\ ~Completed(failure.at)

\* the final mint of a rebalance raised after the burn completed
C7_Witness ==
    /\ RebalanceRun
    /\ failure # NoFailure
    /\ failure.at = 4
    /\ calls[3].method = "burn"
    /\ Completed(3)
    /\ outcome.kind = "raised"

-----------------------------------------------------------------------------
(* C8 *)

\* C8: every mint call and every decreaseLiquidity call issued, by either
\* implementation and on either branch, carries amount0Min = "0" and
\* amount1Min = "0"
C8_NoSlippageProtection ==
    \A k \in 1..Len(calls) :
        calls[k].method \in {"mint", "decreaseLiquidity"} =>
            calls[k].args.amount0Min = "0" /\ calls[k].args.amount1Min = "0"

\* a core run has issued the decreaseLiquidity and the mint of a rebalance
\* with different desired amounts
C8_Witness ==
    /\ impl = "core"
    /\ Len(calls) = 4
    /\ calls[1].method = "decreaseLiquidity"
    /\ calls[4].method = "mint"
    /\ inp.amount0Desired # inp.amount1Desired

-----------------------------------------------------------------------------
(* C9 *)

ChatCreateRun == impl = "chatbot" /\ ~PositionTruthy(inp.position)

\* the approve call the chatbot makes for a token
ApproveCall(token, amount) ==
    [contract_address |-> token, method |-> "approve",
     args |-> [spender |-> "0x27F971cb582BF9E50F397e4d29a5C7A34f11faA2", value |-> amount]]

\* the approve calls that the answers of has_token_approval ask for
ApprovesAskedFor ==
    (IF approval.check0 = "no"
     THEN <<ApproveCall(inp.token0, inp.amount0Desired)>> ELSE <<>>)
    \o (IF approval.check1 = "no"
        THEN <<ApproveCall(inp.token1, inp.amount1Desired)>> ELSE <<>>)

\* C9 as stated: the create branch of the chatbot issues between one and
\* three calls and the last is always mint
C9_AsStated ==
    (ChatCreateRun /\ Done) =>
        /\ Len(calls) \in 1..3
        /\ calls[Len(calls)].method = "mint"

\* C9 (amended): in the chatbot, when the wallet reports no position, the
\* calls issued are the approve of token0 if has_token_approval(token0) was
\* false, then the approve of token1 if has_token_approval(token1) was
\* false, then the mint, each issued only after the wait() on the one before
\* it returned; each approve is addressed to its token and names the
\* position manager as spender and that token's desired amount as value; a
\* run in which no call raises ends with one to three calls, the last a mint
C9_ApprovalsThenMint ==
    ChatCreateRun =>
        LET asked == ApprovesAskedFor
            n == Len(asked)
        IN  /\ Len(calls) <= n + 1
            /\ \A k \in 1..Len(calls) :
                  /\ k <= n => calls[k] = asked[k]
                  /\ k = n + 1 => calls[k].method = "mint" /\ approval.check1 # "unchecked"
                  /\ k > 1 => Completed(k - 1)
            /\ (approval.check0 = "unchecked" /\ pc # "begin") => pc = "check0"
            /\ (approval.check1 = "unchecked" /\ pc = "done") => failure # NoFailure
            /\ Done => Len(calls) >= n
            /\ (Done /\ failure = NoFailure) =>
                  /\ Len(calls) = n + 1
                  /\ Len(calls) \in 1..3
                  /\ calls[Len(calls)].method = "mint"

\* a chatbot create run has approved both tokens and minted
C9_Witness ==
    /\ ChatCreateRun
    /\ Done
    /\ failure = NoFailure
    /\ Len(calls) = 3
    /\ inp.token0 # inp.token1
    /\ inp.amount0Desired # inp.amount1Desired

-----------------------------------------------------------------------------
(* C10 *)

\* C10: in the chatbot, when the wallet reports a position whose token id is
\* missing or whose liquidity is zero (the string "0", the integer 0) or
\* missing, the run issues no contract call and returns
\* "Existing liquidity position is invalid or has zero liquidity."
C10_ZeroLiquidityRejected ==
    (/\ impl = "chatbot"
     /\ PositionTruthy(inp.position)
     /\ \/ PositionGet(inp.position, "tokenId") = NoneV
        \/ PositionGet(inp.position, "liquidity") \in {StrV(<<"0">>), IntV(0), NoneV})
    => /\ calls = <<>>
       /\ Done => outcome = Returned(InvalidStatus)

-----------------------------------------------------------------------------
(* C12 *)

CoreRebalanceRun == impl = "core" /\ RebalanceRun

\* C12: on the rebalance branch of the core, the decreaseLiquidity, collect
\* and burn calls carry the caller's existing_tokenId as tokenId, the
\* decreaseLiquidity call carries the caller's existing_liquidity unchanged
\* as liquidity, and the args of the final mint have no tokenId
C12_OldIdForwarded ==
    CoreRebalanceRun =>
        \A k \in 1..Len(calls) :
            /\ calls[k].method \in {"decreaseLiquidity", "collect", "burn"} =>
                  calls[k].args.tokenId = inp.existing_tokenId
            /\ calls[k].method = "decreaseLiquidity" =>
                  calls[k].args.liquidity = inp.existing_liquidity
            /\ calls[k].method = "mint" => "tokenId" \notin DOMAIN calls[k].args

\* a core rebalance has issued its mint after a decreaseLiquidity whose
\* result carried a token id
C12_Witness ==
    /\ CoreRebalanceRun
    /\ Len(calls) = 4
    /\ \E r \in ResultsOf(1) : r.has /\ r.tokenId # inp.existing_tokenId

-----------------------------------------------------------------------------
(* C13 *)

\* the mint argument record that the inputs of the run determine
MintArgsOfInputs ==
    [token0 |-> inp.token0, token1 |-> inp.token1, fee |-> 3000,
     tickLower |-> inp.tick_a, tickUpper |-> inp.tick_b,
     amount0Desired |-> inp.amount0Desired, amount1Desired |-> inp.amount1Desired,
     amount0Min |-> "0", amount1Min |-> "0",
     recipient |-> inp.address, deadline |-> SentinelDeadline, pool |-> inp.pool]

\* C13: in the core, the argument record of a mint is the same function of
\* the inputs on the create branch and on the rebalance branch: tick_a and
\* tick_b as tickLower and tickUpper (also when tick_a >= tick_b), token0,
\* token1 and the desired amounts unchanged, the wallet's address as
\* recipient
C13_SameMintArgs ==
    impl = "core" =>
        \A k \in 1..Len(calls) :
            calls[k].method = "mint" => calls[k].args = MintArgsOfInputs

\* a core rebalance has issued its mint with tick_a above tick_b
C13_Witness ==
    /\ CoreRebalanceRun
    /\ Len(calls) = 4
    /\ calls[4].method = "mint"
    /\ inp.tick_a > inp.tick_b

-----------------------------------------------------------------------------
(* C14 *)

\* C14: every call the core issues is addressed to
\* 0x03a520b32C04BF3bEEf7BEb72E919cf822Ed34f1, never to the pool, token0 or
\* token1 address the caller supplied
C14_FixedAddress ==
    impl = "core" =>
        \A k \in 1..Len(calls) :
            /\ calls[k].contract_address = "0x03a520b32C04BF3bEEf7BEb72E919cf822Ed34f1"
            /\ calls[k].contract_address \notin {inp.pool, inp.token0, inp.token1}

\* a core rebalance has issued all four of its calls
C14_Witness == CoreRebalanceRun /\ Len(calls) = 4 /\ Done

-----------------------------------------------------------------------------
(* C15 *)

\* C15: a run that returned the validation message has issued no call; and
\* a run told of an existing position whose token id is empty or whose
\* liquidity is zero (the string "0" or the integer 0) never issues a call
C15_NoCallWhenInvalid ==
    /\ outcome = Returned(InvalidStatus) => calls = <<>>
    /\ (ExistingIndicated
            /\ (Empty(GivenTokenId) \/ GivenLiquidity \in {StrV(<<"0">>), IntV(0)}))
          => calls = <<>>

-----------------------------------------------------------------------------
(* C11 *)

MethodsOf(cs) == [k \in 1..Len(cs) |-> cs[k].method]

\* the calls of a run address the token id the caller gave
AddressOldId(cs) ==
    \A k \in 1..Len(cs) :
        cs[k].method \in {"decreaseLiquidity", "collect", "burn"} =>
            cs[k].args.tokenId = inp.existing_tokenId

\* C11: the core keeps no record between runs: called again with the same
\* arguments (existing_position True, a token id, a non-zero liquidity), every
\* run, whatever the earlier runs did, starts at decreaseLiquidity and issues
\* decreaseLiquidity, collect, burn, mint in order on the caller's token id,
\* all four when no call raises; so does the run that follows a run that
\* raised midway or a run that burned the position
C11_NotIdempotent ==
    (/\ impl = "core"
     /\ inp.existing_position
     /\ Truthy(inp.existing_tokenId)
     /\ DenotesNonZero(inp.existing_liquidity))
    => /\ (pc # "begin" /\ calls = <<>>) => pc = "decrease"
       /\ Methods = SubSeq(RebalanceOrder, 1, Len(calls))
       /\ AddressOldId(calls)
       /\ (Done /\ failure = NoFailure) => Methods = RebalanceOrder
       /\ Done => calls # <<>>
       /\ \A j \in 1..Len(previous) :
             /\ previous[j].calls # <<>>
             /\ MethodsOf(previous[j].calls)
                    = SubSeq(RebalanceOrder, 1, Len(previous[j].calls))
             /\ AddressOldId(previous[j].calls)
             /\ previous[j].kind = "returned" =>
                    MethodsOf(previous[j].calls) = RebalanceOrder

\* a run raised at the burn, the call was repeated and rebalanced, and
\* repeated once more it has issued all four calls again on the burned id
C11_Witness ==
    /\ Len(previous) = 2
    /\ previous[1].kind = "raised"
    /\ Len(previous[1].calls) = 3
    /\ previous[2].kind = "returned"
    /\ Len(previous[2].calls) = 4
    /\ Done
    /\ outcome.kind = "returned"
    /\ Methods = RebalanceOrder
    /\ calls[3].args.tokenId = previous[2].calls[3].args.tokenId

-----------------------------------------------------------------------------
(* C16 *)

\* the line spells exit in some mix of upper and lower case
ExitWord(line) ==
    /\ Len(line) = 4
    /\ line[1] \in {"e", "E"}
    /\ line[2] \in {"x", "X"}
    /\ line[3] \in {"i", "I"}
    /\ line[4] \in {"t", "T"}

NotExitWord(line) == ~ExitWord(line)

\* C16: in run_chat_mode the lines handed to the agent executor are the
\* lines read other than "exit" in any case, each once and in the order
\* read; a line is read only when no stream is unexhausted; an exit line is
\* the last line read, ends the loop and is not dispatched
C16_ChatLoop ==
    /\ dispatched = SelectSeq(read, NotExitWord)
    /\ chatPc = "prompt" => open = {}
    /\ Cardinality(open) <= 1
    /\ \A k \in 1..Len(read) :
          ExitWord(read[k]) => (k = Len(read) /\ chatPc = "ended")

\* two lines were dispatched, one of them "exit " with a trailing blank, and
\* an exit in capitals has ended the loop
C16_Witness ==
    /\ chatPc = "ended"
    /\ Len(read) = 3
    /\ read[3] = <<"E", "X", "I", "T">>
    /\ Len(dispatched) = 2
    /\ \E k \in 1..2 : dispatched[k] = <<"e", "x", "i", "t", " ">>
    /\ open = {}

====
